---- MODULE Spec2Model ----
(***************************************************************************)
(* WriterVault backend: the hierarchical category tree (CategoryService /  *)
(* CategoryRepository) and the password-reset token lifecycle (AuthService *)
(* / UserRepository), modelled as state machines over the database rows.   *)
(***************************************************************************)
EXTENDS Integers, Sequences, FiniteSets, TLC

(***************************************************************************)
(* Bounds of the model.                                                    *)
(***************************************************************************)
\* Number of category rows ever inserted (ids come from a sequence and are
\* never reused).
MaxCategories == 3

\* SQL NULL / Python None for an optional integer column or argument.
None == 0 - 1
\* A field left out of an update payload (model_dump(exclude_unset=True)).
Unset == 0 - 2

(***************************************************************************)
(* Strings are sequences of one-character strings, so that lower(), the    *)
(* slug regexes and ORDER BY name can be computed as the code computes     *)
(* them.                                                                   *)
(***************************************************************************)
UpperChars == {"A", "B"}
LowerChars == {"a", "b"}
DigitChars == {"1", "2", "3", "4", "5", "6", "7", "8", "9"}

\* str.lower() / SQL lower() on one character.
LowerChar(c) ==
    CASE c = "A" -> "a"
      [] c = "B" -> "b"
      [] OTHER -> c

\* name.lower()
Lower(s) == [i \in 1..Len(s) |-> LowerChar(s[i])]

\* The regex class \w (letters, digits, underscore).
IsWordChar(c) == c \in UpperChars \cup LowerChars \cup DigitChars \cup {"_"}
\* The regex class \s.
IsSpaceChar(c) == c = " "

\* re.sub(r'[^\w\s-]', '', s): drop every character that is neither a word
\* character, nor white space, nor a hyphen.
StripSpecial(s) ==
    SelectSeq(s, LAMBDA c : IsWordChar(c) \/ IsSpaceChar(c) \/ c = "-")

\* re.sub(r'[-\s]+', '-', s): every maximal run of hyphens and white space
\* becomes one hyphen.
RECURSIVE CollapseSeparators(_)
CollapseSeparators(s) ==
    IF s = <<>> THEN <<>>
    ELSE LET sep(c) == c = "-" \/ IsSpaceChar(c)
             rest == CollapseSeparators(Tail(s))
         IN IF sep(Head(s))
            THEN IF rest # <<>> /\ Head(rest) = "-" THEN rest ELSE <<"-">> \o rest
            ELSE <<Head(s)>> \o rest

\* str.strip('-')
RECURSIVE StripHyphens(_)
StripHyphens(s) ==
    IF s = <<>> THEN <<>>
    ELSE IF Head(s) = "-" THEN StripHyphens(Tail(s))
    ELSE IF s[Len(s)] = "-" THEN StripHyphens(SubSeq(s, 1, Len(s) - 1))
    ELSE s

\* CategoryService._generate_slug
_generate_slug(name) ==
    StripHyphens(CollapseSeparators(StripSpecial(Lower(name))))

\* str(counter) for a one-digit counter.
DigitStr(k) ==
    <<(CASE k = 1 -> "1" [] k = 2 -> "2" [] k = 3 -> "3" [] k = 4 -> "4"
         [] k = 5 -> "5" [] k = 6 -> "6" [] k = 7 -> "7" [] k = 8 -> "8"
         [] OTHER -> "9")>>

\* f"{base_slug}-{counter}"
SlugVariant(base_slug, counter) == base_slug \o <<"-">> \o DigitStr(counter)

\* Rank of a character in the collation used by ORDER BY name.
CharRank(c) ==
    CASE c = " " -> 0 [] c = "!" -> 1 [] c = "-" -> 2
      [] c \in DigitChars -> 3
      [] c = "A" -> 4 [] c = "B" -> 5 [] c = "a" -> 6 [] c = "b" -> 7
      [] OTHER -> 8

\* s sorts strictly before t under ORDER BY.
RECURSIVE NameLess(_, _)
NameLess(s, t) ==
    IF t = <<>> THEN FALSE
    ELSE IF s = <<>> THEN TRUE
    ELSE IF CharRank(Head(s)) # CharRank(Head(t))
         THEN CharRank(Head(s)) < CharRank(Head(t))
         ELSE NameLess(Tail(s), Tail(t))

\* Category names a request can carry (already stripped by the schema
\* validator, never empty): names that differ only in case and names whose
\* slugs collide ("a" and "a!" both give the slug a, "a-1" gives a-1).
Names ==
    { <<"a">>, <<"A">>, <<"a", "!">>, <<"a", "-", "1">> }

(***************************************************************************)
(* State.                                                                  *)
(***************************************************************************)
VARIABLES
    categories,   \* the categories table: id -> row
    next_id,      \* the id sequence of the categories table
    articles,     \* the articles table: id -> [category_id, status]
    last,         \* the last service call: the category and parent it named
                  \* and how it ended
    moves         \* the move_category calls in progress, one per request
                  \* worker

VARIABLES
    users,        \* the users table: email -> row
    now,          \* datetime.now(timezone.utc), in hours
    next_token,   \* number of reset tokens generated so far, plus one
    successes,    \* token -> number of password resets that reported
                  \* success with it
    calls,        \* the password resets in progress, one per request worker
    auth_last,    \* the last completed auth request and its response
    log           \* the reset tokens that were written to the log as they
                  \* are

categoryVars == <<categories, next_id, articles, last, moves>>
authVars == <<users, now, next_token, successes, calls, auth_last, log>>
vars == <<categories, next_id, articles, last, moves,
          users, now, next_token, successes, calls, auth_last, log>>

\* Number of article rows.
MaxArticles == 1

CategoryIds == DOMAIN categories
ArticleIds == DOMAIN articles

\* ArticleStatus
ArticleStatus == {"draft", "published", "archived", "scheduled"}

\* Ids a request can name: every id that can exist, and one that never does.
IdInputs == 1..(MaxCategories + 1)
\* parent_id / new_parent_id of a request: null, zero, or an id.
ParentInputs == {None, 0} \cup IdInputs
\* An optional boolean of a request.
FlagInputs == {"true", "false", "unset"}

NoCall == [op |-> "none", id |-> None, parent |-> None, old_parent |-> None,
           name |-> <<>>, outcome |-> "none", detail |-> "none", count |-> 0]

\* A call's record: `id` is the category it named (for create, the one it
\* made), `parent` the parent_id it carried, `out` <<outcome, message>>;
\* `name` is the name a create or update carried, `old_parent` the
\* parent_id the category had when the call came in.
Result(op, id, parent, out) ==
    [op |-> op, id |-> id, parent |-> parent,
     old_parent |-> IF op # "create" /\ id \in CategoryIds
                    THEN categories[id].parent_id ELSE None,
     name |-> <<>>, outcome |-> out[1], detail |-> out[2], count |-> 0]

\* Python truthiness of an optional integer: None and 0 are false.
Truthy(x) == x # None /\ x # 0

(***************************************************************************)
(* CategoryRepository: queries.                                            *)
(***************************************************************************)
\* BaseRepository.get_by_id: the row's id, or None.
get_by_id(id) == IF id \in CategoryIds THEN id ELSE None

\* A lookup by name that compares the names as they are.
get_by_name_exact(name) ==
    LET hits == {c \in CategoryIds : categories[c].name = name}
    IN IF hits = {} THEN None ELSE CHOOSE c \in hits : \A d \in hits : c <= d

\* CategoryRepository.get_by_name: func.lower(name) == name.lower(), first().
get_by_name(name) ==
    LET hits == {c \in CategoryIds : Lower(categories[c].name) = Lower(name)}
    IN IF hits = {} THEN None ELSE CHOOSE c \in hits : \A d \in hits : c <= d

\* CategoryRepository.get_by_slug: slug == slug, first().
get_by_slug(slug) ==
    LET hits == {c \in CategoryIds : categories[c].slug = slug}
    IN IF hits = {} THEN None ELSE CHOOSE c \in hits : \A d \in hits : c <= d

\* A children query that leaves inactive rows out.
get_children_active(parent_id, is_active) ==
    {c \in CategoryIds :
        categories[c].parent_id = parent_id /\ categories[c].is_active}

\* CategoryRepository.get_children with is_active "unset" / "true" / "false".
get_children(parent_id, is_active) ==
    {c \in CategoryIds :
        /\ categories[c].parent_id = parent_id
        /\ \/ is_active = "unset"
           \/ categories[c].is_active = (is_active = "true")}

\* The loop of CategoryRepository._would_create_cycle from current_id with
\* the visited set.
RECURSIVE CycleWalk(_, _, _)
CycleWalk(category_id, current_id, visited) ==
    IF ~(Truthy(current_id) /\ current_id \notin visited) THEN FALSE
    ELSE IF current_id = category_id THEN TRUE
    ELSE CycleWalk(category_id,
                   IF get_by_id(current_id) # None
                   THEN categories[current_id].parent_id ELSE None,
                   visited \cup {current_id})

\* A cycle check that looks at the new parent only and not at its ancestors.
would_create_cycle_no_walk(category_id, new_parent_id) ==
    Truthy(new_parent_id) /\ new_parent_id = category_id

\* CategoryRepository._would_create_cycle
_would_create_cycle(category_id, new_parent_id) ==
    CycleWalk(category_id, new_parent_id, {})

\* What get_category_path gives when its loop never ends.
NeverReturns == <<0>>

\* The loop of CategoryRepository.get_category_path from current_id with the
\* path built so far. The loop keeps no visited set: once the path holds
\* every row and the walk is still on a row, a row repeats and so does the
\* walk from it, without end.
RECURSIVE PathWalk(_, _)
PathWalk(current_id, path) ==
    IF ~Truthy(current_id) THEN path
    ELSE IF get_by_id(current_id) = None THEN path
    ELSE IF Len(path) >= Cardinality(CategoryIds) THEN NeverReturns
    ELSE PathWalk(categories[current_id].parent_id, <<current_id>> \o path)

\* CategoryRepository.get_category_path: the ids of the rows, root first.
get_category_path(category_id) == PathWalk(category_id, <<>>)

\* Number of rows at most that get_categories_with_article_count returns
\* (its default limit).
ArticleCountLimit == 50

\* Position of category c in ORDER BY name (ties by id).
NameRank(c) ==
    Cardinality({d \in CategoryIds :
        \/ NameLess(categories[d].name, categories[c].name)
        \/ categories[d].name = categories[c].name /\ d < c})

\* CategoryRepository.get_categories_with_article_count(db): the first
\* `limit` categories by name, each with the number of its published
\* articles; as the dict {category.id: article_count} the service builds.
get_categories_with_article_count ==
    [c \in {d \in CategoryIds : NameRank(d) < ArticleCountLimit} |->
        Cardinality({a \in ArticleIds :
            /\ articles[a].category_id = c
            /\ articles[a].status = "published"})]

\* count_dict.get(category_id, 0)
ArticleCountOf(category_id) ==
    IF category_id \in DOMAIN get_categories_with_article_count
    THEN get_categories_with_article_count[category_id] ELSE 0

(***************************************************************************)
(* The category tree.                                                      *)
(***************************************************************************)
\* query.order_by(Category.name).all() over the set S of categories.
RECURSIVE OrderByName(_)
OrderByName(S) ==
    IF S = {} THEN <<>>
    ELSE LET first == CHOOSE c \in S : \A d \in S \ {c} :
                         \/ NameLess(categories[c].name, categories[d].name)
                         \/ categories[c].name = categories[d].name /\ c < d
         IN <<first>> \o OrderByName(S \ {first})

\* all_categories of CategoryRepository.get_category_tree, as a set: the
\* rows that pass the is_active filter ("unset" / "true" / "false").
all_categories(is_active) ==
    {c \in CategoryIds :
        is_active = "unset" \/ categories[c].is_active = (is_active = "true")}

\* CategoryRepository.get_category_tree: its root_categories.
get_category_tree(is_active) ==
    OrderByName({c \in all_categories(is_active) :
                    categories[c].parent_id = None})

\* parent._children as CategoryRepository.get_category_tree fills it: the
\* fetched rows whose parent_id is `parent`, in the order of the query.
_children(parent, is_active) ==
    OrderByName({c \in all_categories(is_active) :
                    categories[c].parent_id = parent})

\* CategoryService._build_category_tree(categories, level): the CategoryTree
\* nodes; `parent_path` is the _parent_path the caller set on the rows
\* (empty for the roots), and path holds the parts that are joined by ' > '.
RECURSIVE _build_category_tree(_, _, _, _)
_build_category_tree(cats, level, parent_path, is_active) ==
    [i \in 1..Len(cats) |->
        [id |-> cats[i],
         level |-> level,
         path |-> parent_path \o <<categories[cats[i]].name>>,
         children |-> _build_category_tree(_children(cats[i], is_active),
                                           level + 1,
                                           <<categories[cats[i]].name>>,
                                           is_active)]]

\* CategoryService.get_category_tree
service_get_category_tree(is_active) ==
    _build_category_tree(get_category_tree(is_active), 0, <<>>, is_active)

(***************************************************************************)
(* The database's own constraints on the categories table.                 *)
(***************************************************************************)
\* A parent_id column with no foreign key.
foreign_key_unenforced(parent_id) == TRUE

\* ForeignKey("categories.id") on parent_id.
ForeignKeyOk(parent_id) == parent_id = None \/ parent_id \in CategoryIds

\* unique=True on name and on slug; `self_id` is the row being written.
UniqueOk(self_id, name, slug) ==
    \A c \in CategoryIds \ {self_id} :
        categories[c].name # name /\ categories[c].slug # slug

(***************************************************************************)
(* CategoryService helpers.                                                *)
(***************************************************************************)
\* The loop of CategoryService._generate_unique_slug from `counter`.
RECURSIVE UniqueSlugFrom(_, _)
UniqueSlugFrom(base_slug, counter) ==
    IF get_by_slug(SlugVariant(base_slug, counter)) # None
    THEN UniqueSlugFrom(base_slug, counter + 1)
    ELSE SlugVariant(base_slug, counter)

\* A disambiguation that appends -1 without looking the result up.
generate_unique_slug_once(base_slug) == SlugVariant(base_slug, 1)

\* CategoryService._generate_unique_slug
_generate_unique_slug(base_slug) == UniqueSlugFrom(base_slug, 1)

\* The slug create_category stores for `name`.
CreateSlug(name) ==
    IF get_by_slug(_generate_slug(name)) # None
    THEN _generate_unique_slug(_generate_slug(name))
    ELSE _generate_slug(name)

\* The slug update_category stores when category_id is renamed to `name`.
UpdateSlug(category_id, name) ==
    LET existing_slug == get_by_slug(_generate_slug(name))
    IN IF existing_slug # None /\ existing_slug # category_id
       THEN _generate_unique_slug(_generate_slug(name))
       ELSE _generate_slug(name)

(***************************************************************************)
(* BaseRepository writes, with the constraints the database enforces.      *)
(***************************************************************************)
\* repository.create(db, category_dict): can the INSERT commit?
CreateCommits(name, slug, parent_id) ==
    ForeignKeyOk(parent_id) /\ UniqueOk(None, name, slug)

\* The table after repository.create: a new active row under the next id.
create(name, slug, parent_id) ==
    (next_id :> [name |-> name, slug |-> slug, parent_id |-> parent_id,
                 is_active |-> TRUE]) @@ categories

\* The row of category_id with the fields of update_dict applied.
UpdatedRow(category_id, name, slug, parent_id, is_active) ==
    [name |-> IF name = <<>> THEN categories[category_id].name ELSE name,
     slug |-> IF name = <<>> THEN categories[category_id].slug ELSE slug,
     parent_id |-> IF parent_id = Unset
                   THEN categories[category_id].parent_id ELSE parent_id,
     is_active |-> IF is_active = "unset"
                   THEN categories[category_id].is_active
                   ELSE is_active = "true"]

\* repository.update(db, category, update_dict): can the UPDATE commit?
UpdateCommits(category_id, row) ==
    ForeignKeyOk(row.parent_id) /\ UniqueOk(category_id, row.name, row.slug)

\* The table after repository.update.
update(category_id, row) == [categories EXCEPT ![category_id] = row]

\* The table after repository.delete(db, category_id).
delete(category_id) ==
    [c \in CategoryIds \ {category_id} |-> categories[c]]

\* ForeignKey("categories.id", ondelete="SET NULL") on articles.category_id.
ArticlesAfterDelete(category_id) ==
    [a \in ArticleIds |->
        IF articles[a].category_id = category_id
        THEN [articles[a] EXCEPT !.category_id = None] ELSE articles[a]]

(***************************************************************************)
(* CategoryRepository writes.                                              *)
(***************************************************************************)
\* A move that writes without the cycle check.
repository_move_category_unchecked(category_id, new_parent_id) ==
    get_by_id(category_id) # None /\ ForeignKeyOk(new_parent_id)

\* CategoryRepository.move_category: its boolean result.
repository_move_category_ok(category_id, new_parent_id) ==
    /\ ~(Truthy(new_parent_id) /\ _would_create_cycle(category_id, new_parent_id))
    /\ get_by_id(category_id) # None
    /\ ForeignKeyOk(new_parent_id)

\* A write that checks for a cycle once more against the rows as they are
\* when it commits, as it would under a lock.
repository_move_category_rechecked(category_id, new_parent_id) ==
    IF Truthy(new_parent_id) /\ _would_create_cycle(category_id, new_parent_id)
    THEN categories
    ELSE [categories EXCEPT ![category_id].parent_id = new_parent_id]

\* A move that leaves the category's children where the category was.
repository_move_category_alone(category_id, new_parent_id) ==
    [c \in CategoryIds |->
        IF c = category_id
        THEN [categories[c] EXCEPT !.parent_id = new_parent_id]
        ELSE IF categories[c].parent_id = category_id
        THEN [categories[c] EXCEPT !.parent_id = categories[category_id].parent_id]
        ELSE categories[c]]

\* A move that leaves the parent in place when the new parent is null.
repository_move_category_not_to_root(category_id, new_parent_id) ==
    IF new_parent_id = None THEN categories
    ELSE [categories EXCEPT ![category_id].parent_id = new_parent_id]

\* The table after a successful CategoryRepository.move_category.
repository_move_category(category_id, new_parent_id) ==
    [categories EXCEPT ![category_id].parent_id = new_parent_id]

\* The rows CategoryRepository.bulk_update_status matches.
BulkMatched(category_ids) == category_ids \cap CategoryIds

\* A bulk update without the filter on the ids.
bulk_update_status_every_row(category_ids, is_active) ==
    [c \in CategoryIds |-> [categories[c] EXCEPT !.is_active = is_active]]

\* The table after CategoryRepository.bulk_update_status.
bulk_update_status(category_ids, is_active) ==
    [c \in CategoryIds |->
        IF c \in BulkMatched(category_ids)
        THEN [categories[c] EXCEPT !.is_active = is_active]
        ELSE categories[c]]

(***************************************************************************)
(* CategoryService: the outcome of each operation in the current state, as *)
(* <<outcome, message>>.                                                   *)
(***************************************************************************)
Ok == <<"ok", "ok">>
Denied == <<"PermissionError", "admin_required">>
Invalid(message) == <<"ValidationError", message>>
Missing == <<"NotFoundError", "category_not_found">>

\* A create that does not look at the parent's is_active.
create_outcome_any_parent(is_admin, name, parent_id) ==
    IF ~is_admin THEN Denied
    ELSE IF Truthy(parent_id) /\ get_by_id(parent_id) = None
         THEN Invalid("parent_not_found")
    ELSE IF get_by_name(name) # None THEN Invalid("name_exists")
    ELSE IF ~CreateCommits(name, CreateSlug(name), parent_id)
         THEN Invalid("failed_to_create")
    ELSE Ok

\* CategoryService.create_category
CreateOutcome(is_admin, name, parent_id) ==
    IF ~is_admin THEN Denied
    ELSE IF Truthy(parent_id) /\ get_by_id(parent_id) = None
         THEN Invalid("parent_not_found")
    ELSE IF Truthy(parent_id) /\ ~categories[parent_id].is_active
         THEN Invalid("inactive_parent")
    ELSE IF get_by_name(name) # None THEN Invalid("name_exists")
    ELSE IF ~CreateCommits(name, CreateSlug(name), parent_id)
         THEN Invalid("failed_to_create")
    ELSE Ok

\* CategoryService.update_category; name = <<>>, parent_id = Unset and
\* is_active = "unset" are fields the payload leaves out.
UpdateOutcome(is_admin, category_id, name, parent_id, is_active) ==
    IF ~is_admin THEN Denied
    ELSE IF get_by_id(category_id) = None THEN Missing
    ELSE IF parent_id # Unset /\ Truthy(parent_id) /\ parent_id = category_id
         THEN Invalid("own_parent")
    ELSE IF parent_id # Unset /\ Truthy(parent_id) /\ get_by_id(parent_id) = None
         THEN Invalid("parent_not_found")
    ELSE IF parent_id # Unset /\ Truthy(parent_id)
            /\ _would_create_cycle(category_id, parent_id)
         THEN Invalid("circular")
    ELSE IF name # <<>> /\ get_by_name(name) # None
            /\ get_by_name(name) # category_id
         THEN Invalid("name_exists")
    ELSE IF ~UpdateCommits(category_id,
                UpdatedRow(category_id, name, UpdateSlug(category_id, name),
                           parent_id, is_active))
         THEN Invalid("failed_to_update")
    ELSE Ok

\* A delete that looks the category up before it checks the requester.
delete_outcome_lookup_first(is_admin, category_id) ==
    IF get_by_id(category_id) = None THEN Missing
    ELSE IF ~is_admin THEN Denied
    ELSE IF get_children(category_id, "unset") # {}
         THEN Invalid("has_children")
    ELSE IF ArticleCountOf(category_id) > 0 THEN Invalid("has_articles")
    ELSE Ok

\* CategoryService.delete_category
DeleteOutcome(is_admin, category_id) ==
    IF ~is_admin THEN Denied
    ELSE IF get_by_id(category_id) = None THEN Missing
    ELSE IF get_children(category_id, "unset") # {}
         THEN Invalid("has_children")
    ELSE IF ArticleCountOf(category_id) > 0 THEN Invalid("has_articles")
    ELSE Ok

\* CategoryService.move_category
MoveOutcome(is_admin, category_id, new_parent_id) ==
    IF ~is_admin THEN Denied
    ELSE IF get_by_id(category_id) = None THEN Missing
    ELSE IF Truthy(new_parent_id) /\ new_parent_id = category_id
         THEN Invalid("own_parent")
    ELSE IF Truthy(new_parent_id) /\ get_by_id(new_parent_id) = None
         THEN Invalid("parent_not_found")
    ELSE IF ~repository_move_category_ok(category_id, new_parent_id)
         THEN Invalid("failed_to_move")
    ELSE Ok

\* CategoryService.bulk_update_categories
BulkOutcome(is_admin) == IF ~is_admin THEN Denied ELSE Ok

(***************************************************************************)
(* CategoryService: the operations.                                        *)
(***************************************************************************)
create_category(is_admin, name, parent_id) ==
    \E out \in {CreateOutcome(is_admin, name, parent_id)} :
       /\ out = Ok => next_id <= MaxCategories
       /\ categories' = IF out = Ok
                        THEN create(name, CreateSlug(name), parent_id)
                        ELSE categories
       /\ next_id' = IF out = Ok THEN next_id + 1 ELSE next_id
       /\ last' = [Result("create", IF out = Ok THEN next_id ELSE None,
                          parent_id, out) EXCEPT !.name = name]
       /\ UNCHANGED <<articles, moves, authVars>>

update_category(is_admin, category_id, name, parent_id, is_active) ==
    \E out \in {UpdateOutcome(is_admin, category_id, name, parent_id, is_active)} :
       /\ categories' =
            IF out = Ok
            THEN update(category_id,
                    UpdatedRow(category_id, name,
                               UpdateSlug(category_id, name),
                               parent_id, is_active))
            ELSE categories
       /\ last' = [Result("update", category_id, parent_id, out)
                     EXCEPT !.name = name]
       /\ UNCHANGED <<next_id, articles, moves, authVars>>

delete_category(is_admin, category_id) ==
    \E out \in {DeleteOutcome(is_admin, category_id)} :
       /\ categories' = IF out = Ok THEN delete(category_id) ELSE categories
       /\ articles' = IF out = Ok THEN ArticlesAfterDelete(category_id)
                      ELSE articles
       /\ last' = Result("delete", category_id, None, out)
       /\ UNCHANGED <<next_id, moves, authVars>>

\* A move that assigns parent_id before the checks and does not take it
\* back when a check of the parent fails.
categories_after_move_write_first(out, category_id, new_parent_id) ==
    IF out = Ok \/ out[2] \in {"own_parent", "failed_to_move"}
    THEN repository_move_category(category_id, new_parent_id)
    ELSE categories

\* The table after CategoryService.move_category that ended in `out`: the
\* write is the last step, and an error before it leaves the table alone.
categories_after_move(out, category_id, new_parent_id) ==
    IF out = Ok THEN repository_move_category(category_id, new_parent_id)
    ELSE categories

move_category(is_admin, category_id, new_parent_id) ==
    \E out \in {MoveOutcome(is_admin, category_id, new_parent_id)} :
       /\ categories' = categories_after_move(out, category_id, new_parent_id)
       /\ last' = Result("move", category_id, new_parent_id, out)
       /\ UNCHANGED <<next_id, articles, moves, authVars>>

bulk_update_categories(is_admin, category_ids, is_active) ==
    \E out \in {BulkOutcome(is_admin)} :
       /\ categories' = IF out = Ok /\ is_active # "unset"
                        THEN bulk_update_status(category_ids, is_active = "true")
                        ELSE categories
       /\ last' = [Result("bulk", None, None, out) EXCEPT
                     !.count = IF out = Ok /\ is_active # "unset"
                               THEN Cardinality(BulkMatched(category_ids))
                               ELSE 0]
       /\ UNCHANGED <<next_id, articles, moves, authVars>>

(***************************************************************************)
(* ArticleRepository: the writes that attach articles to categories.       *)
(***************************************************************************)
\* ArticleRepository.create: category_id is a foreign key (or null).
article_create(category_id, status) ==
    /\ Cardinality(ArticleIds) < MaxArticles
    /\ category_id = None \/ category_id \in CategoryIds
    /\ articles' = (Cardinality(ArticleIds) + 1 :>
                      [category_id |-> category_id, status |-> status])
                   @@ articles
    /\ UNCHANGED <<categories, next_id, last, moves, authVars>>

\* ArticleRepository.update of status and category_id.
article_update(article_id, category_id, status) ==
    /\ article_id \in ArticleIds
    /\ category_id = None \/ category_id \in CategoryIds
    /\ articles' = [articles EXCEPT ![article_id] =
                      [category_id |-> category_id, status |-> status]]
    /\ UNCHANGED <<categories, next_id, last, moves, authVars>>

(***************************************************************************)
(* Password reset: the users table and the security helpers.               *)
(***************************************************************************)
\* Reset tokens generated at most.
MaxTokens == 3
\* Clock ticks at most.
MaxTicks == 4

\* expires_hours of UserRepository.set_password_reset_token.
ResetTokenExpireHours == 24
\* The clock advances in steps of half the life of a token.
TickHours == ResetTokenExpireHours \div 2

\* The registered users, by email, and an email nobody registered.
Emails == {"alice@x", "bob@x"}
UnknownEmail == "nobody@x"
EmailInputs == Emails \cup {UnknownEmail}
\* No user (None where a User is expected).
NoUser == "none"
\* The password every user registered with, and the new ones requests carry.
InitialPassword == "p0"
Passwords == {"p1", "p2"}
\* A reset_token column that is NULL, and "no token" where a token is expected.
NoHash == <<>>
NoToken == 0
\* Tokens a request can carry: every token that can be generated.
TokenInputs == 1..MaxTokens

\* pwd_context.hash: a one-way hash (the salt is left out: no operation
\* compares two hashes with each other).
pwd_hash(plain) == <<"bcrypt", plain>>
\* pwd_context.verify, False on a value that is no hash.
pwd_verify(plain, hashed) == hashed = <<"bcrypt", plain>>

\* security.get_password_hash
get_password_hash(password) == pwd_hash(password)
\* security.hash_password_reset_token
hash_password_reset_token(token) == pwd_hash(token)
\* security.verify_password_reset_token
verify_password_reset_token(token, hashed_token) == pwd_verify(token, hashed_token)

\* UserRepository.get_by_email
get_by_email(email) == IF email \in DOMAIN users THEN email ELSE NoUser

\* The filter of UserRepository.get_by_reset_token: the users whose token is
\* set and expires later than now.
users_with_tokens ==
    {u \in DOMAIN users :
        /\ users[u].reset_token # NoHash
        /\ users[u].reset_token_expires # None
        /\ users[u].reset_token_expires > now}

\* A lookup by token that does not look at the expiry.
get_by_reset_token_any_time(token) ==
    LET hits == {u \in DOMAIN users :
                    verify_password_reset_token(token, users[u].reset_token)}
    IN IF hits = {} THEN NoUser ELSE CHOOSE u \in hits : TRUE

\* A lookup that returns a holder of an unexpired token without comparing
\* the token with the stored hash.
get_by_reset_token_first_holder(token) ==
    IF users_with_tokens = {} THEN NoUser
    ELSE CHOOSE u \in users_with_tokens : TRUE

\* A lookup that passes over users who are not active.
get_by_reset_token_active_only(token) ==
    LET hits == {u \in users_with_tokens :
                    /\ users[u].is_active
                    /\ verify_password_reset_token(token, users[u].reset_token)}
    IN IF hits = {} THEN NoUser ELSE CHOOSE u \in hits : TRUE

\* UserRepository.get_by_reset_token
get_by_reset_token(token) ==
    LET hits == {u \in users_with_tokens :
                    verify_password_reset_token(token, users[u].reset_token)}
    IN IF hits = {} THEN NoUser ELSE CHOOSE u \in hits : TRUE

\* UserRepository.verify_password_reset_token_for_user
verify_password_reset_token_for_user(user, token) ==
    IF users[user].reset_token = NoHash \/ users[user].reset_token_expires = None
    THEN FALSE
    ELSE IF now > users[user].reset_token_expires THEN FALSE
    ELSE verify_password_reset_token(token, users[user].reset_token)

\* A set_password_reset_token that leaves an outstanding token in place.
set_password_reset_token_keeps_old(db, user, token) ==
    IF db[user].reset_token # NoHash THEN db
    ELSE [db EXCEPT ![user].reset_token = hash_password_reset_token(token),
                    ![user].reset_token_expires = now + ResetTokenExpireHours]

\* The table after UserRepository.set_password_reset_token on table db.
set_password_reset_token(db, user, token) ==
    [db EXCEPT ![user].reset_token = hash_password_reset_token(token),
               ![user].reset_token_expires = now + ResetTokenExpireHours]

\* The table after UserRepository.update_password on table db.
update_password(db, user, new_password) ==
    [db EXCEPT ![user].hashed_password = get_password_hash(new_password)]

clear_password_reset_token_keeps(db, user) == db

\* A clear that removes the hash and leaves the expiry.
clear_password_reset_token_hash_only(db, user) ==
    [db EXCEPT ![user].reset_token = NoHash]

\* The table after UserRepository.clear_password_reset_token on table db.
clear_password_reset_token(db, user) ==
    [db EXCEPT ![user].reset_token = NoHash,
               ![user].reset_token_expires = None]

(***************************************************************************)
(* AuthService and the auth endpoints.                                     *)
(***************************************************************************)
\* An HTTP response.
Response(status, message, detail) ==
    [status |-> status, message |-> message, detail |-> detail]

\* A completed auth request: what it carried (email, token), what it mailed
\* and what it answered.
AuthResult(op, email, token, mailed, response) ==
    [op |-> op, email |-> email, token |-> token, mailed |-> mailed,
     response |-> response]

NoAuthCall == AuthResult("none", NoUser, NoToken, NoToken,
                         Response(0, "none", "none"))

\* A request_password_reset that does not look at is_active.
request_issues_token_inactive_too(email) == get_by_email(email) # NoUser

\* AuthService.request_password_reset: does it issue a token for `email`?
RequestIssuesToken(email) ==
    get_by_email(email) # NoUser /\ users[email].is_active

RequestResetResponse_reveals(reset_token, email_sent) ==
    IF reset_token = NoToken THEN Response(404, "error", "no_such_account")
    ELSE IF ~email_sent THEN Response(500, "error", "email_not_sent")
    ELSE Response(200, "password_reset_email_sent", "check_your_email")

\* The response of the request-password-reset endpoint, given the token the
\* service returned and whether the email went out.
RequestResetResponse(reset_token, email_sent) ==
    Response(200, "if_account_exists_you_will_receive_instructions",
             "check_your_email")

\* The response of the reset-password endpoint to the service's result.
ResetPasswordResponse(success) ==
    IF success
    THEN Response(200, "password_reset_successful", "you_can_now_login")
    ELSE Response(400, "error", "invalid_or_expired_reset_token")

\* The response of the verify-reset-token endpoint.
VerifyResetTokenResponse(user) ==
    IF user # NoUser THEN Response(200, "reset_token_is_valid", user)
    ELSE Response(200, "invalid_or_expired_reset_token", NoUser)

\* What POST /request-password-reset answers for `email` in this state.
RequestResetOutcome(email, email_sent) ==
    RequestResetResponse(
        IF RequestIssuesToken(email) THEN next_token ELSE NoToken,
        RequestIssuesToken(email) /\ email_sent)

\* What AuthService.request_password_reset(email) returns: the new token,
\* or no token.
RequestedToken(email) ==
    IF RequestIssuesToken(email) THEN next_token ELSE NoToken

\* The users table after AuthService.request_password_reset(email).
UsersAfterRequest(email) ==
    IF RequestIssuesToken(email)
    THEN set_password_reset_token(users, email, next_token) ELSE users

\* What EmailService.send_password_reset_email(to_email, reset_token) adds
\* to the log: with the service disabled (EMAIL_ENABLED unset or not
\* "true") the reset URL and the token, with it enabled the address and the
\* subject only.
send_password_reset_email_logs(enabled, reset_token) ==
    IF enabled THEN {} ELSE {reset_token}

\* POST /request-password-reset: AuthService.request_password_reset, then
\* the email; `enabled` is EmailService.enabled and `email_sent` is what
\* send_password_reset_email returns (always True when it only logs).
request_password_reset(email, enabled, email_sent) ==
    /\ RequestIssuesToken(email) => next_token <= MaxTokens
    /\ ~enabled => email_sent
    /\ log' = IF RequestIssuesToken(email)
              THEN log \cup send_password_reset_email_logs(enabled, next_token)
              ELSE log
    /\ users' = UsersAfterRequest(email)
    /\ next_token' = IF RequestIssuesToken(email) THEN next_token + 1
                     ELSE next_token
    /\ auth_last' =
         AuthResult("request", email, NoToken,
            IF RequestIssuesToken(email) /\ email_sent
            THEN next_token ELSE NoToken,
            RequestResetOutcome(email, email_sent))
    /\ UNCHANGED <<now, successes, calls, categoryVars>>

\* POST /verify-reset-token: AuthService.verify_reset_token
verify_reset_token(token) ==
    /\ auth_last' = AuthResult("verify", NoUser, token, NoToken,
                        VerifyResetTokenResponse(get_by_reset_token(token)))
    /\ UNCHANGED <<users, now, next_token, successes, calls, log, categoryVars>>

\* The users table after AuthService.reset_password_with_token has run
\* from its first statement to its last.
UsersAfterReset(token, new_password) ==
    LET user == get_by_reset_token(token)
    IN IF user = NoUser THEN users
       ELSE clear_password_reset_token(
                update_password(users, user, new_password), user)

\* What POST /reset-password answers for `token` in this state.
ResetOutcome(token) ==
    ResetPasswordResponse(get_by_reset_token(token) # NoUser)

\* POST /reset-password: AuthService.reset_password_with_token, run from
\* its first statement to its last with no other request in between.
reset_password_with_token(token, new_password) ==
    \E user \in {get_by_reset_token(token)} :
       /\ users' = UsersAfterReset(token, new_password)
       /\ successes' = IF user = NoUser THEN successes
                       ELSE [successes EXCEPT ![token] = @ + 1]
       /\ auth_last' = AuthResult("reset", NoUser, token, NoToken,
                                  ResetOutcome(token))
       /\ UNCHANGED <<now, next_token, calls, log, categoryVars>>

\* AuthService.deactivate_user / UserRepository.deactivate
deactivate_user(user) ==
    /\ user \in DOMAIN users
    /\ users' = [users EXCEPT ![user].is_active = FALSE]
    /\ UNCHANGED <<now, next_token, successes, calls, auth_last, log, categoryVars>>

\* AuthService.activate_user / UserRepository.activate
activate_user(user) ==
    /\ user \in DOMAIN users
    /\ users' = [users EXCEPT ![user].is_active = TRUE]
    /\ UNCHANGED <<now, next_token, successes, calls, auth_last, log, categoryVars>>

\* Time passes.
Tick ==
    /\ now < MaxTicks * TickHours
    /\ now' = now + TickHours
    /\ UNCHANGED <<users, next_token, successes, calls, auth_last, log, categoryVars>>

(***************************************************************************)
(* reset_password_with_token statement by statement, for requests served   *)
(* concurrently: each worker has its own session and its own User object.  *)
(***************************************************************************)
Workers == {"w1", "w2"}
\* The new password each worker's request carries.
WorkerPassword == [w \in Workers |-> IF w = "w1" THEN "p1" ELSE "p2"]

Idle == [pc |-> "idle", token |-> NoToken, password |-> InitialPassword,
         user |-> NoUser]

\* user = user_repository.get_by_reset_token(db, token); return False when
\* there is none.
reset_read(w, token, new_password) ==
    /\ calls[w].pc = "idle"
    /\ \E user \in {get_by_reset_token(token)} :
          calls' = [calls EXCEPT ![w] =
                      [pc |-> IF user = NoUser THEN "return_false"
                              ELSE "update_password",
                       token |-> token, password |-> new_password,
                       user |-> user]]
    /\ UNCHANGED <<users, now, next_token, successes, auth_last, log, categoryVars>>

\* user_repository.update_password(db, user, new_password), committed.
reset_update_password(w) ==
    /\ calls[w].pc = "update_password"
    /\ users' = update_password(users, calls[w].user, calls[w].password)
    /\ calls' = [calls EXCEPT ![w].pc = "clear_token"]
    /\ UNCHANGED <<now, next_token, successes, auth_last, log, categoryVars>>

\* user_repository.clear_password_reset_token(db, user), committed.
reset_clear_token(w) ==
    /\ calls[w].pc = "clear_token"
    /\ users' = clear_password_reset_token(users, calls[w].user)
    /\ calls' = [calls EXCEPT ![w].pc = "return_true"]
    /\ UNCHANGED <<now, next_token, successes, auth_last, log, categoryVars>>

\* return True / return False, and the endpoint's response.
reset_return(w) ==
    /\ calls[w].pc \in {"return_true", "return_false"}
    /\ successes' = IF calls[w].pc = "return_true"
                    THEN [successes EXCEPT ![calls[w].token] = @ + 1]
                    ELSE successes
    /\ auth_last' = AuthResult("reset", NoUser, calls[w].token, NoToken,
                        ResetPasswordResponse(calls[w].pc = "return_true"))
    /\ calls' = [calls EXCEPT ![w] = Idle]
    /\ UNCHANGED <<users, now, next_token, log, categoryVars>>

(***************************************************************************)
(* CategoryService.move_category step by step, one call per worker: the    *)
(* reads (the service's checks and the repository's cycle check), then the *)
(* write and its commit. Nothing is locked in between.                     *)
(***************************************************************************)
NoMove == [pc |-> "idle", id |-> None, parent |-> None]

\* The admin check, get_category, the parent checks and _would_create_cycle,
\* against the rows as they are now; an error is raised at once.
move_read(w, category_id, new_parent_id) ==
    /\ moves[w].pc = "idle"
    /\ \E out \in {MoveOutcome(TRUE, category_id, new_parent_id)} :
          moves' = [moves EXCEPT ![w] =
                      IF out = Ok
                      THEN [pc |-> "write", id |-> category_id,
                            parent |-> new_parent_id]
                      ELSE NoMove]
    /\ UNCHANGED <<categories, next_id, articles, last, authVars>>

\* category.parent_id = new_parent_id; db.commit()
move_write(w) ==
    /\ moves[w].pc = "write"
    /\ categories' = repository_move_category(moves[w].id, moves[w].parent)
    /\ moves' = [moves EXCEPT ![w].pc = "return_true"]
    /\ UNCHANGED <<next_id, articles, last, authVars>>

\* return updated_category
move_return(w) ==
    /\ moves[w].pc = "return_true"
    /\ moves' = [moves EXCEPT ![w] = NoMove]
    /\ UNCHANGED <<categories, next_id, articles, last, authVars>>

Init ==
    /\ categories = <<>>
    /\ next_id = 1
    /\ articles = <<>>
    /\ last = NoCall
    /\ moves = [w \in Workers |-> NoMove]
    /\ users = [u \in Emails |->
                  [is_active |-> TRUE,
                   hashed_password |-> get_password_hash(InitialPassword),
                   reset_token |-> NoHash,
                   reset_token_expires |-> None]]
    /\ now = 0
    /\ next_token = 1
    /\ successes = [token \in TokenInputs |-> 0]
    /\ calls = [w \in Workers |-> Idle]
    /\ auth_last = NoAuthCall
    /\ log = {}

\* The name the k-th create request carries when names do not matter.
PlainName(k) == [i \in 1..k |-> "a"]

(***************************************************************************)
(* Every request the service accepts.                                      *)
(***************************************************************************)
Next ==
    \/ \E is_admin \in BOOLEAN, name \in Names, parent_id \in ParentInputs :
          create_category(is_admin, name, parent_id)
    \/ \E is_admin \in BOOLEAN, category_id \in IdInputs,
          name \in Names \cup {<<>>}, parent_id \in ParentInputs \cup {Unset},
          is_active \in FlagInputs :
          update_category(is_admin, category_id, name, parent_id, is_active)
    \/ \E is_admin \in BOOLEAN, category_id \in IdInputs :
          delete_category(is_admin, category_id)
    \/ \E is_admin \in BOOLEAN, category_id \in IdInputs,
          new_parent_id \in ParentInputs :
          move_category(is_admin, category_id, new_parent_id)
    \/ \E is_admin \in BOOLEAN, category_ids \in (SUBSET IdInputs) \ {{}},
          is_active \in FlagInputs :
          bulk_update_categories(is_admin, category_ids, is_active)
    \/ \E w \in Workers, category_id \in IdInputs, new_parent_id \in ParentInputs :
          move_read(w, category_id, new_parent_id)
    \/ \E w \in Workers : move_write(w)
    \/ \E w \in Workers : move_return(w)
    \/ \E category_id \in IdInputs \cup {None}, status \in ArticleStatus :
          article_create(category_id, status)
    \/ \E article_id \in 1..MaxArticles, category_id \in IdInputs \cup {None},
          status \in ArticleStatus :
          article_update(article_id, category_id, status)
    \/ \E email \in EmailInputs, enabled \in BOOLEAN, email_sent \in BOOLEAN :
          request_password_reset(email, enabled, email_sent)
    \/ \E token \in TokenInputs : verify_reset_token(token)
    \/ \E w \in Workers, token \in TokenInputs, new_password \in Passwords :
          reset_read(w, token, new_password)
    \/ \E w \in Workers : reset_update_password(w)
    \/ \E w \in Workers : reset_clear_token(w)
    \/ \E w \in Workers : reset_return(w)
    \/ \E user \in Emails : deactivate_user(user)
    \/ \E user \in Emails : activate_user(user)
    \/ Tick

Spec == Init /\ [][Next]_vars

(***************************************************************************)
(* The hierarchy workload: every operation that reads or writes parent_id, *)
(* with every parent and every id, and the bulk status update of the whole *)
(* table; the k-th category is created under the name PlainName(k) and is  *)
(* not renamed.                                                            *)
(***************************************************************************)
\* The ids the requests of the hierarchy workload name: every category in
\* the store and one id that is in no row.
TreeIds == CategoryIds \cup {next_id}
\* The parents they name: null, zero, and the same ids.
TreeParents == {None, 0} \cup TreeIds

NextTree ==
    \/ \E parent_id \in TreeParents :
          create_category(TRUE, PlainName(next_id), parent_id)
    \/ \E category_id \in TreeIds, parent_id \in TreeParents :
          update_category(TRUE, category_id, <<>>, parent_id, "unset")
    \/ \E category_id \in TreeIds :
          delete_category(TRUE, category_id)
    \/ \E category_id \in TreeIds, new_parent_id \in TreeParents :
          move_category(TRUE, category_id, new_parent_id)
    \/ \E is_active \in FlagInputs :
          bulk_update_categories(TRUE, IdInputs, is_active)
    \* the same requests from a requester who is not an admin, for the
    \* first category and for an id that is in no row
    \/ \E category_id \in {1, next_id} :
          \/ create_category(FALSE, PlainName(next_id), None)
          \/ update_category(FALSE, category_id, <<>>, None, "unset")
          \/ delete_category(FALSE, category_id)
          \/ move_category(FALSE, category_id, None)
          \/ bulk_update_categories(FALSE, {category_id}, "false")

SpecTree == Init /\ [][NextTree]_vars

(***************************************************************************)
(* Deleting categories that have children or articles.  Each category is   *)
(* created as a root or under the one created before it; children are      *)
(* deactivated; articles of every status are attached and change status.   *)
(***************************************************************************)
NextDelete ==
    \/ \E parent_id \in {None} \cup (CategoryIds \cap {next_id - 1}) :
          create_category(TRUE, PlainName(next_id), parent_id)
    \/ \E category_id \in CategoryIds : delete_category(TRUE, category_id)
    \/ \E category_id \in {c \in CategoryIds : categories[c].parent_id # None} :
          bulk_update_categories(TRUE, {category_id}, "false")
    \/ \E category_id \in CategoryIds, status \in ArticleStatus :
          article_create(category_id, status)
    \/ \E article_id \in ArticleIds, status \in ArticleStatus :
          article_update(article_id, articles[article_id].category_id, status)

SpecDelete == Init /\ [][NextDelete]_vars

(***************************************************************************)
(* Naming: creates and renames with names that collide in name or in slug. *)
(***************************************************************************)
NextNames ==
    \/ \E name \in Names : create_category(TRUE, name, None)
    \/ \E category_id \in CategoryIds, name \in Names :
          update_category(TRUE, category_id, name, Unset, "unset")
    \/ \E category_id \in CategoryIds :
          bulk_update_categories(TRUE, {category_id}, "false")
    \/ \E category_id \in CategoryIds : delete_category(TRUE, category_id)

SpecNames == Init /\ [][NextNames]_vars

(***************************************************************************)
(* Activation: creates under every kind of parent (null, zero, missing,    *)
(* active, inactive) and bulk status updates of every set of ids.          *)
(***************************************************************************)
NextStatus ==
    \/ \E parent_id \in TreeParents :
          create_category(TRUE, PlainName(next_id), parent_id)
    \/ \E category_ids \in (SUBSET IdInputs) \ {{}}, is_active \in FlagInputs :
          bulk_update_categories(TRUE, category_ids, is_active)

SpecStatus == Init /\ [][NextStatus]_vars

(***************************************************************************)
(* Re-parenting: creates under every parent, and moves and parent changes  *)
(* of every category to every parent.                                      *)
(***************************************************************************)
NextReparent ==
    \/ \E parent_id \in {None} \cup CategoryIds :
          create_category(TRUE, PlainName(next_id), parent_id)
    \/ \E category_id \in CategoryIds, new_parent_id \in {None} \cup CategoryIds :
          move_category(TRUE, category_id, new_parent_id)
    \/ \E category_id \in CategoryIds, parent_id \in {None} \cup CategoryIds :
          update_category(TRUE, category_id, <<>>, parent_id, "unset")

SpecReparent == Init /\ [][NextReparent]_vars

(***************************************************************************)
(* Moves by two request workers at once, each under another category, on   *)
(* categories created as roots.                                            *)
(***************************************************************************)
NextMoveRace ==
    \/ create_category(TRUE, PlainName(next_id), None)
    \/ \E w \in Workers, category_id \in CategoryIds,
          new_parent_id \in CategoryIds :
          move_read(w, category_id, new_parent_id)
    \/ \E w \in Workers : move_write(w)
    \/ \E w \in Workers : move_return(w)

SpecMoveRace == Init /\ [][NextMoveRace]_vars

(***************************************************************************)
(* The password-reset requests, served one at a time, with the email       *)
(* service enabled.                                                        *)
(***************************************************************************)
NextAuth ==
    \/ \E email \in EmailInputs, email_sent \in BOOLEAN :
          request_password_reset(email, TRUE, email_sent)
    \/ \E token \in TokenInputs : verify_reset_token(token)
    \/ \E token \in TokenInputs, new_password \in Passwords :
          reset_password_with_token(token, new_password)
    \/ \E user \in Emails : deactivate_user(user)
    \/ \E user \in Emails : activate_user(user)
    \/ Tick

SpecAuth == Init /\ [][NextAuth]_vars

(***************************************************************************)
(* The password-reset requests with the email service enabled or disabled, *)
(* and the resets that consume the tokens.                                 *)
(***************************************************************************)
NextMail ==
    \/ \E email \in EmailInputs, enabled \in BOOLEAN, email_sent \in BOOLEAN :
          request_password_reset(email, enabled, email_sent)
    \/ \E token \in TokenInputs :
          reset_password_with_token(token, "p1")

SpecMail == Init /\ [][NextMail]_vars

(***************************************************************************)
(* Tokens held by several users: requests of the known users, resets,      *)
(* deactivations and the passing of time.                                  *)
(***************************************************************************)
NextHolders ==
    \/ \E email \in Emails : request_password_reset(email, TRUE, TRUE)
    \/ \E token \in TokenInputs, new_password \in Passwords :
          reset_password_with_token(token, new_password)
    \/ \E user \in Emails : deactivate_user(user)
    \/ Tick

SpecHolders == Init /\ [][NextHolders]_vars

(***************************************************************************)
(* The password-reset requests with two workers resetting concurrently.    *)
(***************************************************************************)
NextRace ==
    \/ \E email \in Emails : request_password_reset(email, TRUE, TRUE)
    \/ \E w \in Workers, token \in TokenInputs :
          reset_read(w, token, WorkerPassword[w])
    \/ \E w \in Workers : reset_update_password(w)
    \/ \E w \in Workers : reset_clear_token(w)
    \/ \E w \in Workers : reset_return(w)
    \/ Tick

SpecRace == Init /\ [][NextRace]_vars

(***************************************************************************)
(* Properties of the category hierarchy.                                   *)
(***************************************************************************)
\* Walking parent_id from `current` reaches a root within `steps` hops
\* without meeting category c or a row that does not exist.
RECURSIVE ReachesRoot(_, _, _)
ReachesRoot(c, current, steps) ==
    IF current = None THEN TRUE
    ELSE IF current = c \/ current \notin CategoryIds \/ steps = 0 THEN FALSE
    ELSE ReachesRoot(c, categories[current].parent_id, steps - 1)

\* The categories below those of S, at most n levels down, with S.
RECURSIVE Subtree(_, _)
Subtree(S, n) ==
    IF n = 0 THEN S
    ELSE Subtree(S \cup {d \in CategoryIds : categories[d].parent_id \in S},
                 n - 1)

\* The proper descendants of category c.
Descendants(c) == Subtree({c}, Cardinality(CategoryIds)) \ {c}

\* Number of ancestors of category c (in an acyclic table).
RECURSIVE Depth(_)
Depth(c) ==
    IF categories[c].parent_id \notin CategoryIds THEN 0
    ELSE 1 + Depth(categories[c].parent_id)

\* C1: in every state reached by sequential create, update, move, delete
\* and bulk-status operations the parent relation is acyclic: from every
\* category the parent chain reaches a root in finitely many steps and
\* never returns to the category.
C1_ParentRelationAcyclic ==
    \A c \in CategoryIds :
        ReachesRoot(c, categories[c].parent_id, Cardinality(CategoryIds))

\* C1 witness: a move or a parent change through update has succeeded and
\* put a category that has a child of its own under a parent, which leaves
\* a chain of three.
C1_Witness ==
    /\ last.op \in {"move", "update"}
    /\ last.outcome = "ok"
    /\ last.id \in CategoryIds
    /\ last.parent \in CategoryIds
    /\ categories[last.id].parent_id = last.parent
    /\ get_children(last.id, "unset") # {}

\* C2: in every reachable state, an admin's move_category(C, P) ends in
\* ValidationError for every existing C and every P that is C itself or a
\* descendant of C, at any depth.
C2_MoveIntoSubtreeRejected ==
    \A c \in CategoryIds :
        \A p \in {c} \cup Descendants(c) :
            MoveOutcome(TRUE, c, p)[1] = "ValidationError"

\* C2 witness: a move of a category under its own grandchild was rejected
\* with ValidationError.
C2_Witness ==
    /\ last.op = "move"
    /\ last.outcome = "ValidationError"
    /\ last.id \in CategoryIds
    /\ last.parent \in Descendants(last.id)
    /\ categories[last.parent].parent_id # last.id

(***************************************************************************)
(* Properties of the admin check.                                          *)
(***************************************************************************)
\* The names of the categories in the store.
NamesInStore == {categories[c].name : c \in CategoryIds}

\* C11: in every reachable state each mutating operation, called by a
\* requester who is not an admin, ends in PermissionError for every
\* argument: a category id that exists or not, a name that is taken or
\* free, a parent that is null, missing, the category itself or one of its
\* descendants.
C11_NonAdminDenied ==
    /\ \A parent_id \in ParentInputs :
         \A name \in NamesInStore \cup {PlainName(next_id)} :
            CreateOutcome(FALSE, name, parent_id) = Denied
    /\ \A category_id \in IdInputs :
         /\ \A parent_id \in ParentInputs \cup {Unset} :
              \A name \in NamesInStore \cup {<<>>} :
                 UpdateOutcome(FALSE, category_id, name, parent_id, "unset")
                    = Denied
         /\ DeleteOutcome(FALSE, category_id) = Denied
         /\ \A new_parent_id \in ParentInputs :
              MoveOutcome(FALSE, category_id, new_parent_id) = Denied
    /\ BulkOutcome(FALSE) = Denied

\* C11 witness: a request that names a category that does not exist was
\* refused with PermissionError, in a store where a category has a
\* descendant (so that cyclic parents are among the arguments above).
C11_Witness ==
    /\ last.outcome = "PermissionError"
    /\ last.op \in {"update", "delete", "move"}
    /\ last.id \notin CategoryIds
    /\ \E c \in CategoryIds : Descendants(c) # {}

(***************************************************************************)
(* Properties of delete_category.                                          *)
(***************************************************************************)
\* The categories whose parent_id is c, active or not.
ChildrenOf(c) == {d \in CategoryIds : categories[d].parent_id = c}

\* The articles whose category_id is c, whatever their status.
ArticlesOf(c) == {a \in ArticleIds : articles[a].category_id = c}

\* C6: in every reachable state an admin's delete_category(C) ends in
\* ValidationError when some category, active or not, has parent_id = C, and
\* succeeds when C has no child and no article; a delete that ended in
\* ValidationError left C in the store and one that succeeded removed it.
C6_DeleteRefusedWithChildren ==
    /\ \A c \in CategoryIds :
         /\ ChildrenOf(c) # {} =>
               DeleteOutcome(TRUE, c)[1] = "ValidationError"
         /\ (ChildrenOf(c) = {} /\ ArticlesOf(c) = {}) =>
               DeleteOutcome(TRUE, c) = Ok
    /\ (last.op = "delete" /\ last.outcome = "ValidationError") =>
          last.id \in CategoryIds
    /\ (last.op = "delete" /\ last.outcome = "ok") =>
          last.id \notin CategoryIds

\* C6 witness: a delete was refused for a category whose only child is
\* inactive, and the category is still there.
C6_Witness ==
    /\ last.op = "delete"
    /\ last.detail = "has_children"
    /\ last.id \in CategoryIds
    /\ ChildrenOf(last.id) # {}
    /\ \A d \in ChildrenOf(last.id) : ~categories[d].is_active

\* C7: in every reachable state an admin's delete_category(C) ends in
\* ValidationError when some article, of whatever status, has
\* category_id = C.
C7_DeleteRefusedWithArticles ==
    \A c \in CategoryIds :
        ArticlesOf(c) # {} => DeleteOutcome(TRUE, c)[1] = "ValidationError"

(***************************************************************************)
(* Properties of names and slugs.                                          *)
(***************************************************************************)
\* The categories other than `self_id` whose name is `name` up to case.
SameName(self_id, name) ==
    {d \in CategoryIds \ {self_id} : Lower(categories[d].name) = Lower(name)}

\* C8: in every reachable state no two categories have the same name up to
\* case; a create whose name is that of an existing category (active or
\* not) and an update whose name is that of a different category end in
\* ValidationError; an update of a category to its own name succeeds.
C8_NamesUnique ==
    /\ \A c \in CategoryIds : SameName(c, categories[c].name) = {}
    /\ \A name \in Names :
          SameName(None, name) # {} =>
             CreateOutcome(TRUE, name, None)[1] = "ValidationError"
    /\ \A c \in CategoryIds : \A name \in Names :
          SameName(c, name) # {} =>
             UpdateOutcome(TRUE, c, name, Unset, "unset")[1] = "ValidationError"
    /\ \A c \in CategoryIds :
          UpdateOutcome(TRUE, c, categories[c].name, Unset, "unset") = Ok

\* C8 witness: a rename was refused because an inactive category has the
\* requested name in another case.
C8_Witness ==
    /\ last.op = "update"
    /\ last.detail = "name_exists"
    /\ last.id \in CategoryIds
    /\ \E d \in SameName(last.id, last.name) :
          ~categories[d].is_active /\ categories[d].name # last.name

\* Is `slug` the slug of some category?
SlugInUse(slug) == \E d \in CategoryIds : categories[d].slug = slug

\* base-k for the smallest k >= 1 whose slug no category has.
SmallestFreeVariant(base_slug) ==
    LET k == CHOOSE i \in 1..(Cardinality(CategoryIds) + 1) :
                /\ ~SlugInUse(SlugVariant(base_slug, i))
                /\ \A j \in 1..(i - 1) : SlugInUse(SlugVariant(base_slug, j))
    IN SlugVariant(base_slug, k)

\* C9: in every reachable state no two categories have the same slug; a
\* create or rename whose name collides with no other category's name
\* succeeds, and when the slug derived from the name is used by a different
\* category the slug it stores is base-k for the smallest k >= 1 not in use.
C9_SlugsDisambiguated ==
    /\ \A c \in CategoryIds : \A d \in CategoryIds \ {c} :
          categories[c].slug # categories[d].slug
    /\ \A name \in Names :
          SameName(None, name) = {} =>
             /\ CreateOutcome(TRUE, name, None) = Ok
             /\ SlugInUse(_generate_slug(name)) =>
                   CreateSlug(name) = SmallestFreeVariant(_generate_slug(name))
    /\ \A c \in CategoryIds : \A name \in Names :
          SameName(c, name) = {} =>
             /\ UpdateOutcome(TRUE, c, name, Unset, "unset") = Ok
             /\ (\E d \in CategoryIds \ {c} :
                    categories[d].slug = _generate_slug(name)) =>
                   UpdateSlug(c, name) = SmallestFreeVariant(_generate_slug(name))

\* C9 witness: a create or rename succeeded and stored base-2, because the
\* base slug and base-1 were both taken.
C9_Witness ==
    /\ last.op \in {"create", "update"}
    /\ last.outcome = "ok"
    /\ last.id \in CategoryIds
    /\ last.name \in Names
    /\ categories[last.id].slug = SlugVariant(_generate_slug(last.name), 2)

(***************************************************************************)
(* Properties of the password reset.                                       *)
(***************************************************************************)
\* C3: with requests served one at a time, once reset_password_with_token
\* has reported success with token T, no user is found by T any more: the
\* next reset-password with T answers 400 and the next verify-reset-token
\* answers invalid, so T succeeds at most once.
C3_UsedTokenRejected ==
    \A token \in TokenInputs :
        successes[token] > 0 =>
            /\ successes[token] = 1
            /\ get_by_reset_token(token) = NoUser
            /\ ResetPasswordResponse(get_by_reset_token(token) # NoUser).status = 400
            /\ VerifyResetTokenResponse(get_by_reset_token(token)).detail = NoUser

\* C3 witness: a reset-password with a token that had succeeded before was
\* answered 400, at a time when no token can have expired.
C3_Witness ==
    /\ auth_last.op = "reset"
    /\ auth_last.token \in TokenInputs
    /\ successes[auth_last.token] = 1
    /\ auth_last.response.status = 400
    /\ now = 0

\* C4: with two workers running reset_password_with_token step by step, no
\* token is reported successful by more than one call.
C4_AtMostOneSuccessPerToken ==
    \A token \in TokenInputs : successes[token] <= 1

\* C5: for every user whose reset_token_expires is not later than now and
\* every token, neither get_by_reset_token nor
\* verify_password_reset_token_for_user accepts the token for that user.
C5_ExpiredTokenRejected ==
    \A user \in Emails : \A token \in TokenInputs :
        (/\ users[user].reset_token_expires # None
         /\ users[user].reset_token_expires <= now)
        => /\ get_by_reset_token(token) # user
           /\ ~verify_password_reset_token_for_user(user, token)

\* C10: in every reachable state the request-password-reset endpoint gives
\* one and the same response for every email (of an active user, of an
\* inactive user, of nobody) and whether or not the email went out; and the
\* response the last request got is that response.
C10_UniformResetResponse ==
    /\ \A e1 \in EmailInputs, e2 \in EmailInputs :
         \A s1 \in BOOLEAN, s2 \in BOOLEAN :
            RequestResetOutcome(e1, s1) = RequestResetOutcome(e2, s2)
    /\ auth_last.op = "request" =>
          auth_last.response = RequestResetOutcome(UnknownEmail, FALSE)

\* C10 witness: the last request named the email of a deactivated user and
\* mailed nothing, while another, active user holds a token from an earlier
\* request.
C10_Witness ==
    /\ auth_last.op = "request"
    /\ auth_last.email \in Emails
    /\ ~users[auth_last.email].is_active
    /\ auth_last.mailed = NoToken
    /\ \E user \in Emails :
          users[user].is_active /\ users[user].reset_token # NoHash

\* C12: in every reachable state each user is found by at most one token;
\* and as long as the last request served is a request_password_reset that
\* mailed token T2 to a user, that user is found by T2 until T2 expires and
\* by no other token, so neither verify-reset-token nor reset-password
\* accepts a token generated for that user before.
C12_NewTokenSupersedes ==
    /\ \A user \in Emails :
          Cardinality({token \in TokenInputs :
                          get_by_reset_token(token) = user}) <= 1
    /\ (auth_last.op = "request" /\ auth_last.mailed # NoToken) =>
          \A token \in TokenInputs :
             (get_by_reset_token(token) = auth_last.email)
                <=> (/\ token = auth_last.mailed
                     /\ now < users[auth_last.email].reset_token_expires)

\* C12 witness: the second token was generated for the user who held the
\* first one: two tokens exist, none was used, the other user never had
\* one, and the last request was this user's and was mailed token 2.
C12_Witness ==
    /\ auth_last.op = "request"
    /\ auth_last.email \in Emails
    /\ auth_last.mailed = 2
    /\ next_token = 3
    /\ \A token \in TokenInputs : successes[token] = 0
    /\ \A user \in Emails \ {auth_last.email} : users[user].reset_token = NoHash
    /\ get_by_reset_token(1) = NoUser
    /\ get_by_reset_token(2) = auth_last.email

\* A token that was never generated.
NeverIssued(token) == token >= next_token
\* A token with which a password reset has succeeded.
Consumed(token) == successes[token] > 0
\* A token whose hash is stored with an expiry that is not in the future.
Expired(token) ==
    \E user \in Emails :
        /\ verify_password_reset_token(token, users[user].reset_token)
        /\ users[user].reset_token_expires <= now
\* A token that was generated and never used, and whose hash was
\* overwritten by a later request of the same user.
Superseded(token) ==
    /\ token < next_token
    /\ successes[token] = 0
    /\ \A user \in Emails :
          ~verify_password_reset_token(token, users[user].reset_token)

\* C13: in every reachable state a reset-password with a token that was
\* never issued, has expired, was consumed or was superseded gets the one
\* 400 response of a failed reset, and leaves the users table as it is,
\* whatever the new password.
C13_UniformResetFailure ==
    \A token \in TokenInputs :
        (NeverIssued(token) \/ Expired(token) \/ Consumed(token)
            \/ Superseded(token))
        => /\ ResetOutcome(token) = ResetPasswordResponse(FALSE)
           /\ \A new_password \in Passwords :
                 UsersAfterReset(token, new_password) = users

\* C13 witness: the last request was a reset-password with an expired token
\* whose hash is still stored, it was answered 400, and in the same state
\* one token is consumed and another superseded.
C13_Witness ==
    /\ auth_last.op = "reset"
    /\ auth_last.token \in TokenInputs
    /\ Expired(auth_last.token)
    /\ auth_last.response = ResetPasswordResponse(FALSE)
    /\ \E token \in TokenInputs : Consumed(token)
    /\ \E token \in TokenInputs : Superseded(token)

\* C14: in every reachable state request_password_reset for an email of no
\* user, or of a user whose is_active is false, returns no token and leaves
\* the users table (reset_token, reset_token_expires and hashed_password of
\* every user) as it is.
C14_NoTokenForUnknownOrInactive ==
    \A email \in EmailInputs :
        (get_by_email(email) = NoUser \/ ~users[email].is_active)
        => /\ RequestedToken(email) = NoToken
           /\ UsersAfterRequest(email) = users

\* C14 witness: the last request was for a deactivated user who still holds
\* an unexpired token from before the deactivation; nothing was mailed and
\* no token was generated since.
C14_Witness ==
    /\ auth_last.op = "request"
    /\ auth_last.email \in Emails
    /\ ~users[auth_last.email].is_active
    /\ auth_last.mailed = NoToken
    /\ get_by_reset_token(next_token - 1) = auth_last.email

(***************************************************************************)
(* Properties of the category tree.                                        *)
(***************************************************************************)
\* The nodes of a tree, parents before children, without their children.
RECURSIVE Flatten(_)
RECURSIVE FlattenFrom(_, _)
FlattenFrom(tree, i) ==
    IF i > Len(tree) THEN <<>>
    ELSE <<[id |-> tree[i].id, level |-> tree[i].level, path |-> tree[i].path]>>
         \o Flatten(tree[i].children) \o FlattenFrom(tree, i + 1)
Flatten(tree) == FlattenFrom(tree, 1)

\* C15: in every reachable state, for is_active None and True, the
\* flattened get_category_tree holds each category that passes the filter
\* exactly once and no other, and the level of each node is the number of
\* its ancestors.
C15_TreeFlattensToFilter ==
    \A is_active \in {"unset", "true"} :
        LET flat == Flatten(service_get_category_tree(is_active))
        IN /\ {flat[i].id : i \in 1..Len(flat)} = all_categories(is_active)
           /\ \A i \in 1..Len(flat), j \in 1..Len(flat) :
                 flat[i].id = flat[j].id => i = j
           /\ \A i \in 1..Len(flat) : flat[i].level = Depth(flat[i].id)

\* The ids of the nodes of a tree.
TreeIdsOf(tree) ==
    {Flatten(tree)[i].id : i \in 1..Len(Flatten(tree))}

\* C16: in every reachable state an admin's move_category(C, None) would
\* succeed for every existing C; and when the last call was such a move,
\* it succeeded, C.parent_id is null, and get_category_tree (unfiltered, as
\* an admin sees it) lists C among the roots at level 0 with exactly C's
\* descendants beneath it.
C16_MoveToRoot ==
    /\ \A c \in CategoryIds : MoveOutcome(TRUE, c, None) = Ok
    /\ (/\ last.op = "move"
        /\ last.outcome # "PermissionError"
        /\ last.id \in CategoryIds
        /\ last.parent = None)
       => /\ last.outcome = "ok"
          /\ categories[last.id].parent_id = None
          /\ \E i \in 1..Len(service_get_category_tree("unset")) :
                LET node == service_get_category_tree("unset")[i]
                IN /\ node.id = last.id
                   /\ node.level = 0
                   /\ TreeIdsOf(node.children) = Descendants(last.id)

\* C16 witness: the only child of a root, with a child of its own, was
\* moved to the root level; the tree now has two roots, the old parent
\* without children and the moved category with its child.
C16_Witness ==
    /\ last.op = "move"
    /\ last.outcome = "ok"
    /\ last.parent = None
    /\ last.old_parent \in CategoryIds
    /\ categories[last.old_parent].parent_id = None
    /\ Descendants(last.old_parent) = {}
    /\ Descendants(last.id) # {}
    /\ Len(service_get_category_tree("unset")) = 2

(***************************************************************************)
(* Properties of activation.                                               *)
(***************************************************************************)
\* C17: in every reachable state, for every non-empty set of ids and both
\* values of is_active, an admin's bulk_update_categories succeeds, the
\* table it leaves has the same rows, is_active is the given value on the
\* rows whose id is in the set and unchanged on the others, name, slug and
\* parent_id of every row are unchanged, and the count is the number of
\* rows whose id is in the set.
C17_BulkUpdateFrame ==
    \A category_ids \in (SUBSET IdInputs) \ {{}} : \A is_active \in BOOLEAN :
        LET after == bulk_update_status(category_ids, is_active)
        IN /\ BulkOutcome(TRUE) = Ok
           /\ DOMAIN after = CategoryIds
           /\ \A c \in CategoryIds :
                 /\ after[c].name = categories[c].name
                 /\ after[c].slug = categories[c].slug
                 /\ after[c].parent_id = categories[c].parent_id
                 /\ after[c].is_active =
                       IF c \in category_ids THEN is_active
                       ELSE categories[c].is_active
           /\ Cardinality(BulkMatched(category_ids))
                 = Cardinality({c \in CategoryIds : c \in category_ids})

\* C17 witness: the last call was a bulk update that matched two of three
\* categories, and the third has the other value of is_active.
C17_Witness ==
    /\ last.op = "bulk"
    /\ last.outcome = "ok"
    /\ last.count = 2
    /\ Cardinality(CategoryIds) = 3
    /\ \E c \in CategoryIds : \A d \in CategoryIds \ {c} :
          categories[d].is_active # categories[c].is_active

\* C18: in every reachable state an admin's create_category with a
\* parent_id that is not the id of a category (zero included), or is the id
\* of an inactive one, ends in ValidationError; and every category in the
\* store was created under no parent or under one that existed.
C18_CreateUnderBadParentRejected ==
    /\ \A parent_id \in ParentInputs \ {None} :
          (parent_id \notin CategoryIds \/ ~categories[parent_id].is_active)
          => CreateOutcome(TRUE, PlainName(next_id), parent_id)[1]
                = "ValidationError"
    /\ \A c \in CategoryIds :
          categories[c].parent_id = None
             \/ (categories[c].parent_id \in CategoryIds
                    /\ categories[c].parent_id < c)
    /\ (last.op = "create" /\ last.outcome = "ValidationError") =>
          last.id = None

\* C18 witness: a create under an existing, inactive parent was refused.
C18_Witness ==
    /\ last.op = "create"
    /\ last.detail = "inactive_parent"
    /\ last.parent \in CategoryIds
    /\ ~categories[last.parent].is_active

(***************************************************************************)
(* Properties of the reset as other requests see it.                       *)
(***************************************************************************)
\* C19: with reset_password_with_token running step by step, there is no
\* state in which the user's hashed_password is already the hash of a
\* call's new password while that call's token is still stored for the user
\* and is still found by get_by_reset_token.
C19_ResetAtomic ==
    \A w \in Workers :
        ~ /\ calls[w].pc = "clear_token"
          /\ calls[w].user \in DOMAIN users
          /\ pwd_verify(calls[w].password, users[calls[w].user].hashed_password)
          /\ get_by_reset_token(calls[w].token) = calls[w].user

\* C20: in every reachable state, for every user, reset_token is null
\* exactly when reset_token_expires is null; the same holds of the table
\* every password-reset request and every reset would leave.
C20_TokenAndExpiryTogether ==
    LET Paired(db) ==
            \A u \in DOMAIN db :
                (db[u].reset_token = NoHash) <=> (db[u].reset_token_expires = None)
    IN /\ Paired(users)
       /\ \A email \in EmailInputs : Paired(UsersAfterRequest(email))
       /\ \A token \in TokenInputs, new_password \in Passwords :
             Paired(UsersAfterReset(token, new_password))

\* C20 witness: the last call was a successful reset, which left its user
\* with neither field, while another user holds a token with its expiry.
C20_Witness ==
    /\ auth_last.op = "reset"
    /\ auth_last.response.status = 200
    /\ \E u \in DOMAIN users :
          /\ users[u].reset_token = NoHash
          /\ users[u].reset_token_expires = None
          /\ \E new_password \in Passwords :
                pwd_verify(new_password, users[u].hashed_password)
    /\ \E v \in DOMAIN users :
          /\ users[v].reset_token # NoHash
          /\ users[v].reset_token_expires # None

(***************************************************************************)
(* Properties of the walks through the parents, on any parent map.         *)
(***************************************************************************)
\* The ids on the walk from current_id through the parents.
RECURSIVE WalkSet(_, _)
WalkSet(current_id, seen) ==
    IF ~Truthy(current_id) \/ current_id \in seen THEN seen
    ELSE WalkSet(IF current_id \in CategoryIds
                 THEN categories[current_id].parent_id ELSE None,
                 seen \cup {current_id})

\* The walk from current_id through the parents comes to an id a second
\* time.
RECURSIVE WalkRevisits(_, _)
WalkRevisits(current_id, seen) ==
    IF ~Truthy(current_id) THEN FALSE
    ELSE IF current_id \in seen THEN TRUE
    ELSE WalkRevisits(IF current_id \in CategoryIds
                      THEN categories[current_id].parent_id ELSE None,
                      seen \cup {current_id})

\* C21: for every category and every candidate parent, on every parent map
\* the moves can leave, the cycle check rejects exactly when the category
\* is on the walk from the candidate through the parents or the walk comes
\* to an id a second time.
C21_CycleCheckRejectsRevisit ==
    \A category_id \in CategoryIds, new_parent_id \in CategoryIds :
        _would_create_cycle(category_id, new_parent_id)
           <=> \/ category_id \in WalkSet(new_parent_id, {})
               \/ WalkRevisits(new_parent_id, {})

\* C22: get_category_path returns for every category on every parent map
\* the moves can leave, and where the walk from the category comes to no id
\* twice the path ends with the category, starts with a root and each row
\* is the parent of the next.
C22_PathTerminates ==
    \A category_id \in CategoryIds :
        LET path == get_category_path(category_id)
        IN /\ path # NeverReturns
           /\ ~WalkRevisits(category_id, {}) =>
                 /\ Len(path) >= 1
                 /\ path[Len(path)] = category_id
                 /\ categories[path[1]].parent_id = None
                 /\ \A i \in 1..(Len(path) - 1) :
                       categories[path[i + 1]].parent_id = path[i]

(***************************************************************************)
(* Properties of moves by two workers at once.                             *)
(***************************************************************************)
\* C25: a move that has passed its checks writes whatever the rows have
\* become since: for every worker about to write, the table after its write
\* has the category under the parent it asked for, also when the category
\* is by now on the walk from that parent through the parents, so that the
\* write closes a parent cycle.
C25_MovesTakeNoLock ==
    \A w \in Workers :
        moves[w].pc = "write" =>
           LET after == repository_move_category(moves[w].id, moves[w].parent)
           IN /\ DOMAIN after = CategoryIds
              /\ after[moves[w].id].parent_id = moves[w].parent
              /\ \A c \in CategoryIds \ {moves[w].id} :
                    after[c].parent_id = categories[c].parent_id

\* C25 witness: both workers' moves have committed, one put A under B and
\* the other B under A, and the two now form a parent cycle.
C25_Witness ==
    \E w \in Workers, v \in Workers :
        /\ moves[w].pc = "return_true"
        /\ moves[v].pc = "return_true"
        /\ moves[w].id = moves[v].parent
        /\ moves[v].id = moves[w].parent
        /\ categories[moves[w].id].parent_id = moves[v].id
        /\ categories[moves[v].id].parent_id = moves[w].id
        /\ WalkRevisits(moves[w].id, {})

(***************************************************************************)
(* Properties of the tree's paths.                                         *)
(***************************************************************************)
\* The names of the ancestors of category c from the root down, then c's
\* own (in an acyclic table).
RECURSIVE AncestorNames(_)
AncestorNames(c) ==
    IF categories[c].parent_id \notin CategoryIds
    THEN <<categories[c].name>>
    ELSE AncestorNames(categories[c].parent_id) \o <<categories[c].name>>

\* C23: in every reachable state, the parts of the path of every node of
\* the unfiltered get_category_tree, at every depth, are the names of all
\* its ancestors from the root down, then its own name.
C23_PathNamesAllAncestors ==
    LET flat == Flatten(service_get_category_tree("unset"))
    IN \A i \in 1..Len(flat) : flat[i].path = AncestorNames(flat[i].id)

(***************************************************************************)
(* Properties of re-parenting.                                             *)
(***************************************************************************)
\* Table `after` differs from the present one in the parent_id of category
\* c, which is p, and in nothing else.
OnlyParentChanged(after, c, p) ==
    /\ DOMAIN after = CategoryIds
    /\ after[c] = [categories[c] EXCEPT !.parent_id = p]
    /\ \A d \in CategoryIds \ {c} : after[d] = categories[d]

\* C24: in every reachable state, for every category C and every parent P,
\* when an admin's move_category(C, P) succeeds, and when an admin's
\* update_category of C's parent_id to P succeeds, the table it leaves
\* differs in C's parent_id only: every other category, C's children and
\* deeper descendants among them, keeps its parent_id; and after a
\* successful move the category is under the parent the call named.
C24_MoveChangesOneParent ==
    /\ \A c \in CategoryIds, p \in {None} \cup CategoryIds :
          /\ MoveOutcome(TRUE, c, p) = Ok =>
                OnlyParentChanged(repository_move_category(c, p), c, p)
          /\ UpdateOutcome(TRUE, c, <<>>, p, "unset") = Ok =>
                OnlyParentChanged(
                    update(c, UpdatedRow(c, <<>>, UpdateSlug(c, <<>>), p, "unset")),
                    c, p)
    /\ (last.op \in {"move", "update"} /\ last.outcome = "ok") =>
          categories[last.id].parent_id = last.parent

\* C24 witness: a category with a child was moved from the root under
\* another category, and its child is still its child.
C24_Witness ==
    /\ last.op = "move"
    /\ last.outcome = "ok"
    /\ last.old_parent = None
    /\ last.parent \in CategoryIds
    /\ \E d \in CategoryIds : categories[d].parent_id = last.id

(***************************************************************************)
(* Properties of the token's secrecy.                                      *)
(***************************************************************************)
\* C26: in every reachable state, no user's reset_token is a token as it
\* was generated (it is empty or the hash of one), and no token has been
\* written to the log as it was generated.
C26_TokenNeverStoredOrLogged ==
    /\ \A u \in DOMAIN users :
          \/ users[u].reset_token = NoHash
          \/ \E token \in TokenInputs :
                users[u].reset_token = hash_password_reset_token(token)
    /\ log = {}

(***************************************************************************)
(* Properties of the parent reference.                                     *)
(***************************************************************************)
\* C27: in every state reached by sequential create, update, move and
\* delete, every parent_id that is not null is the id of a category in the
\* store; an admin's create, update or move that names a parent that is
\* not in the store ends in ValidationError; and an admin's delete of a
\* category that has children ends in ValidationError.
C27_ParentExists ==
    /\ \A c \in CategoryIds :
          categories[c].parent_id = None \/ categories[c].parent_id \in CategoryIds
    /\ \A p \in IdInputs \ CategoryIds :
          /\ CreateOutcome(TRUE, PlainName(next_id), p)[1] = "ValidationError"
          /\ \A c \in CategoryIds :
                /\ UpdateOutcome(TRUE, c, <<>>, p, "unset")[1] = "ValidationError"
                /\ MoveOutcome(TRUE, c, p)[1] = "ValidationError"
    /\ \A c \in CategoryIds :
          get_children(c, "unset") # {} =>
             DeleteOutcome(TRUE, c)[1] = "ValidationError"

\* C27 witness: a category was deleted from under a parent that is still in
\* the store, and another category still has a parent.
C27_Witness ==
    /\ last.op = "delete"
    /\ last.outcome = "ok"
    /\ last.old_parent \in CategoryIds
    /\ \E c \in CategoryIds : categories[c].parent_id \in CategoryIds

(***************************************************************************)
(* Properties of failed calls.                                             *)
(***************************************************************************)
\* C28: every create_category, update_category, move_category or
\* delete_category that ends in ValidationError, NotFoundError or
\* PermissionError leaves the categories table as it was: the same
\* categories with the same name, slug, parent_id and is_active.
C28_FailedCallChangesNothing ==
    [][(/\ last'.op \in {"create", "update", "move", "delete"}
        /\ last'.outcome \in {"ValidationError", "NotFoundError", "PermissionError"})
       => /\ categories' = categories
          /\ next_id' = next_id]_vars

\* C28 witness: a move of a category under its own child ended in
\* ValidationError.
C28_Witness ==
    /\ last.op = "move"
    /\ last.outcome = "ValidationError"
    /\ last.id \in CategoryIds
    /\ last.parent \in CategoryIds
    /\ categories[last.parent].parent_id = last.id

(***************************************************************************)
(* Properties of whom a token acts on.                                     *)
(***************************************************************************)
\* C29: in every reachable state and for every token T, the user that
\* get_by_reset_token(T) returns (which is what verify_reset_token
\* returns) is the one user whose stored hash is that of T; a reset with T
\* sets the password and clears the token of that user and leaves every
\* other user's row as it is; and a token that was just mailed leads, while
\* it is found at all, to the user of the request that issued it.
C29_TokenActsOnItsUserOnly ==
    /\ \A token \in TokenInputs, new_password \in Passwords :
          LET user == get_by_reset_token(token)
              after == UsersAfterReset(token, new_password)
          IN IF user = NoUser THEN after = users
             ELSE /\ verify_password_reset_token(token, users[user].reset_token)
                  /\ \A other \in DOMAIN users \ {user} :
                        /\ ~verify_password_reset_token(token, users[other].reset_token)
                        /\ after[other] = users[other]
                  /\ after[user].hashed_password = get_password_hash(new_password)
                  /\ after[user].reset_token = NoHash
    /\ (/\ auth_last.op = "request"
        /\ auth_last.mailed # NoToken
        /\ get_by_reset_token(auth_last.mailed) # NoUser)
       => get_by_reset_token(auth_last.mailed) = auth_last.email

\* C29 witness: the last call was a successful reset while both users held
\* a token; one user now has a new password and no token, the other still
\* has the first password and an unexpired token.
C29_Witness ==
    /\ auth_last.op = "reset"
    /\ auth_last.response.status = 200
    /\ \E user \in DOMAIN users, other \in DOMAIN users :
          /\ user # other
          /\ users[user].reset_token = NoHash
          /\ users[user].hashed_password # get_password_hash(InitialPassword)
          /\ users[other].hashed_password = get_password_hash(InitialPassword)
          /\ other \in users_with_tokens

\* C30: in every reachable state, a user who is not active and holds an
\* unexpired token T is still found by get_by_reset_token(T), a reset with
\* T sets that user's password and is answered 200, and a request for a
\* new token for that user issues none.
C30_ResetIgnoresActiveFlag ==
    \A user \in DOMAIN users, token \in TokenInputs :
        (/\ ~users[user].is_active
         /\ user \in users_with_tokens
         /\ verify_password_reset_token(token, users[user].reset_token))
        => /\ get_by_reset_token(token) = user
           /\ ResetOutcome(token).status = 200
           /\ \A new_password \in Passwords :
                 UsersAfterReset(token, new_password)[user].hashed_password
                    = get_password_hash(new_password)
           /\ ~RequestIssuesToken(user)
           /\ RequestedToken(user) = NoToken

\* C30 witness: the last call was a successful reset, and the user whose
\* password it changed is not active.
C30_Witness ==
    /\ auth_last.op = "reset"
    /\ auth_last.response.status = 200
    /\ \E user \in DOMAIN users :
          /\ ~users[user].is_active
          /\ users[user].reset_token = NoHash
          /\ users[user].hashed_password # get_password_hash(InitialPassword)
          /\ \A other \in DOMAIN users \ {user} :
                users[other].hashed_password = get_password_hash(InitialPassword)

====
